---- MODULE Spec2Model ----
(***************************************************************************)
(* Model of the jumping task environments: the base engine JumpTaskEnv     *)
(* (jumping_task.py), the coloured variant JumpTaskEnvWithColors           *)
(* (jumping_colors_task.py) and the coordinates variant                    *)
(* JumpTaskEnvWithCoordinates (jumping_coordinates_task.py).               *)
(*                                                                         *)
(* One environment instance is modelled.  Its constructor arguments are    *)
(* chosen in Init and never change; the fields of the instance are the     *)
(* remaining variables.  Each public call (step, reset, _reset, close) is  *)
(* one action; the value it returns, or the exception it raises, is        *)
(* recorded in ret.                                                        *)
(***************************************************************************)
EXTENDS Integers, Sequences, FiniteSets, TLC

----------------------------------------------------------------------------
(* Module-level constants of jumping_task.py *)

JUMP_HEIGHT == 15
JUMP_VERTICAL_SPEED == 1
JUMP_HORIZONTAL_SPEED == 1

OBSTACLE_1 == 20
OBSTACLE_2 == 55
ALLOWED_OBSTACLE_X == {20, 30, 40}
ALLOWED_OBSTACLE_Y == {10, 20}
LEFT == 14
RIGHT == 48
DOWN == 0
UP == 41

(* Constructor defaults of JumpTaskEnv.__init__ that the model keeps fixed *)
scr_w == 60
agent_w == 5
agent_h == 10
obstacle_w == 9
obstacle_h == 10
agent_init_pos == 0
agent_speed == 1

(* self.rewards *)
rewards_life == -1
rewards_exit == 100

----------------------------------------------------------------------------
(* Bounds of the exploration *)

\* max_number_of_steps of the configurations that walk the whole screen and
\* on, past the far side of the second obstacle (x = OBSTACLE_2 + obstacle_w)
LongEpisode == 64
\* max_number_of_steps of the configurations that explore the left action
ShortEpisode == 4
\* max_number_of_steps of the configurations that follow one jump to its end
JumpEpisode == 34
\* the out-of-range margin tried by explicit resets around LEFT/RIGHT/DOWN/UP
Margin == 1

\* the actions passed to step: 0 right, 1 jump, 2 left, 3 never legal
Actions == 0 .. 3

\* the arguments <<obstacle_position, floor_height, two_obstacles>> passed to
\* _reset: the ends of the accepted ranges, a value outside each end, and the
\* two-obstacle layout with out-of-range arguments and with a floor height
\* beyond the screen
ExplicitArgs == {<<LEFT, 10, FALSE>>,
                 <<RIGHT - 1, UP - 1, FALSE>>,
                 <<30, scr_w - 1 + Margin, TRUE>>,
                 <<LEFT - Margin, 10, FALSE>>,
                 <<RIGHT - 1 + Margin, 10, FALSE>>,
                 <<30, DOWN - Margin, FALSE>>,
                 <<30, UP - 1 + Margin, FALSE>>,
                 <<LEFT - Margin, 20, TRUE>>}

----------------------------------------------------------------------------
VARIABLES
    variant,              \* "base" | "colors" | "coordinates": the class
    obstacle_color,       \* "RED" | "GREEN" (JumpTaskEnvWithColors only)
    with_left_action,     \* constructor argument
    finish_jump,          \* constructor argument
    max_number_of_steps,  \* constructor argument
    ctor_two_obstacles,   \* constructor argument two_obstacles
    agent_pos_x,
    agent_pos_y,
    agent_current_speed,
    jumping,              \* <<in the air, "up" | "down" | "None">>
    step_id,
    done,
    floor_height,
    two_obstacles,
    obstacle_position,
    already_collided,     \* _already_collided (JumpTaskEnvWithColors only)
    ret,                  \* the outcome of the last call
    hist                  \* history of the current episode (ghost)

config == <<variant, obstacle_color, with_left_action, finish_jump,
            max_number_of_steps, ctor_two_obstacles>>
fields == <<agent_pos_x, agent_pos_y, agent_current_speed, jumping, step_id,
            done, floor_height, two_obstacles, obstacle_position,
            already_collided>>
vars == <<config, fields, ret, hist>>

\* the part of the instance that the spec calls the episode state
episode == <<agent_pos_x, agent_pos_y, agent_current_speed, jumping, step_id,
             done, floor_height, two_obstacles, obstacle_position>>

----------------------------------------------------------------------------
(* Helpers *)

Max(a, b) == IF a >= b THEN a ELSE b

legal_actions == IF with_left_action THEN {0, 1, 2} ELSE {0, 1}

\* mutant: the bonus of the two colours exchanged
rewards_collision_exchanged == IF obstacle_color = "GREEN" THEN 0 ELSE 100

rewards_collision == IF obstacle_color = "GREEN" THEN 100 ELSE 0

\* The record the kinematics and the detector work on: the fields of self
\* that step() reads and writes.  up and down count the ticks of the current
\* jump (ghost, not read by the program).
Self == [x |-> agent_pos_x, y |-> agent_pos_y, speed |-> agent_current_speed,
         jumping |-> jumping, done |-> done, collided |-> already_collided,
         up |-> hist.up, down |-> hist.down]

----------------------------------------------------------------------------
(* Observation encoders.  The two raster encoders are modelled by the      *)
(* fields they draw (agent rectangle origin, floor line, obstacle          *)
(* origins); the coordinates encoder by the vector it returns.             *)

RasterState(x, y, f, two, p) ==
    IF two THEN <<x, y, f, OBSTACLE_1, OBSTACLE_2>> ELSE <<x, y, f, p>>

\* mutant: the horizontal distance taken from the agent to the obstacle
CoordinatesState_reversed(x, y, f, p) == <<p - x, y - f>>

CoordinatesState(x, y, f, p) == <<x - p, y - f>>

\* JumpTaskEnvWithCoordinates.observation_space: Box(low, high)
observation_space_low == <<1 - RIGHT, 0>>
observation_space_high == <<56 - LEFT, 16>>

\* The raster encoders draw the floor with obs[0:scr_w, floor_height] on an
\* axis of scr_w cells: an index outside -scr_w .. scr_w - 1 raises
\* IndexError.  The coordinates encoder indexes nothing.
get_state_outcome(f) ==
    IF variant # "coordinates" /\ (f < 0 - scr_w \/ f >= scr_w)
    THEN "IndexError" ELSE "ok"

get_state(x, y, f, two, p) ==
    IF variant = "coordinates" THEN CoordinatesState(x, y, f, p)
    ELSE RasterState(x, y, f, two, p)

----------------------------------------------------------------------------
(* Collision / success detector *)

\* mutant: the agent's right edge is compared with <= (touching collides)
_overlapping_objects_touching(e, sx, sy) ==
    /\ sx + obstacle_w > e.x
    /\ sx <= e.x + agent_w
    /\ sy + obstacle_h > e.y
    /\ sy < e.y + agent_h

\* mutant: the obstacle is tested one pixel lower than it is
_overlapping_objects_low(e, sx, sy) ==
    /\ sx + obstacle_w > e.x
    /\ sx < e.x + agent_w
    /\ sy + obstacle_h - 1 > e.y
    /\ sy < e.y + agent_h

_overlapping_objects(e, sx, sy) ==
    /\ sx + obstacle_w > e.x
    /\ sx < e.x + agent_w
    /\ sy + obstacle_h > e.y
    /\ sy < e.y + agent_h

\* mutant: the right edge counts as passed when the agent touches it
Base_game_status_touching_exit(e) ==
    LET failure == IF two_obstacles
                   THEN \/ _overlapping_objects(e, OBSTACLE_1, floor_height)
                        \/ _overlapping_objects(e, OBSTACLE_2, floor_height)
                   ELSE _overlapping_objects(e, obstacle_position, floor_height)
        success == scr_w <= e.x + agent_w
    IN  [failure |-> failure, success |-> success,
         self |-> [e EXCEPT !.done = (failure \/ success)]]

\* mutant: only the first obstacle of the two-obstacle layout is tested
Base_game_status_first(e) ==
    LET failure == IF two_obstacles
                   THEN _overlapping_objects(e, OBSTACLE_1, floor_height)
                   ELSE _overlapping_objects(e, obstacle_position, floor_height)
        success == scr_w < e.x + agent_w
    IN  [failure |-> failure, success |-> success,
         self |-> [e EXCEPT !.done = (failure \/ success)]]

\* JumpTaskEnv._game_status: <<failure, success>> and the new self.done
Base_game_status(e) ==
    LET failure == IF two_obstacles
                   THEN \/ _overlapping_objects(e, OBSTACLE_1, floor_height)
                        \/ _overlapping_objects(e, OBSTACLE_2, floor_height)
                   ELSE _overlapping_objects(e, obstacle_position, floor_height)
        success == scr_w < e.x + agent_w
    IN  [failure |-> failure, success |-> success,
         self |-> [e EXCEPT !.done = (failure \/ success)]]

\* mutant: a collision ends the episode whatever the colour
Colors_game_status_fatal(e) ==
    LET b == Base_game_status(e)
        collided == IF obstacle_color = "GREEN"
                    THEN (~b.self.collided) /\ b.failure
                    ELSE b.failure
    IN  [failure |-> collided, success |-> b.success,
         self |-> [b.self EXCEPT !.done = (collided \/ b.success),
                                 !.collided = (b.self.collided \/ collided)]]

\* JumpTaskEnvWithColors._game_status
Colors_game_status(e) ==
    LET b == Base_game_status(e)
        collided == IF obstacle_color = "GREEN"
                    THEN (~b.self.collided) /\ b.failure
                    ELSE b.failure
        newdone == IF obstacle_color = "GREEN"
                   THEN b.success
                   ELSE (collided \/ b.success)
    IN  [failure |-> collided, success |-> b.success,
         self |-> [b.self EXCEPT !.done = newdone,
                                 !.collided = (b.self.collided \/ collided)]]

_game_status(e) ==
    IF variant = "colors" THEN Colors_game_status(e) ELSE Base_game_status(e)

----------------------------------------------------------------------------
(* Kinematics *)

\* mutant: the turning point is one pixel higher
_continue_jump_late(e) ==
    LET x1 == Max(e.x + e.speed, 0)
        dir == IF e.y > floor_height + JUMP_HEIGHT + 1 THEN "down" ELSE e.jumping[2]
    IN  IF dir = "up"
        THEN [e EXCEPT !.x = x1,
                       !.jumping = <<e.jumping[1], dir>>,
                       !.y = e.y + agent_speed * JUMP_VERTICAL_SPEED,
                       !.up = e.up + 1]
        ELSE IF dir = "down"
        THEN LET y1 == e.y - agent_speed * JUMP_VERTICAL_SPEED
             IN  [e EXCEPT !.x = x1,
                           !.jumping = <<IF y1 = floor_height THEN FALSE
                                         ELSE e.jumping[1], dir>>,
                           !.y = y1,
                           !.down = e.down + 1]
        ELSE [e EXCEPT !.x = x1]

\* mutant: the landing is detected one pixel above the floor
_continue_jump_early_landing(e) ==
    LET x1 == Max(e.x + e.speed, 0)
        dir == IF e.y > floor_height + JUMP_HEIGHT THEN "down" ELSE e.jumping[2]
    IN  IF dir = "up"
        THEN [e EXCEPT !.x = x1,
                       !.jumping = <<e.jumping[1], dir>>,
                       !.y = e.y + agent_speed * JUMP_VERTICAL_SPEED,
                       !.up = e.up + 1]
        ELSE IF dir = "down"
        THEN LET y1 == e.y - agent_speed * JUMP_VERTICAL_SPEED
             IN  [e EXCEPT !.x = x1,
                           !.jumping = <<IF y1 = floor_height + 1 THEN FALSE
                                         ELSE e.jumping[1], dir>>,
                           !.y = y1,
                           !.down = e.down + 1]
        ELSE [e EXCEPT !.x = x1]

\* mutant: x is not clamped at the left edge
_continue_jump_unclamped(e) ==
    LET x1 == e.x + e.speed
        dir == IF e.y > floor_height + JUMP_HEIGHT THEN "down" ELSE e.jumping[2]
    IN  IF dir = "up"
        THEN [e EXCEPT !.x = x1,
                       !.jumping = <<e.jumping[1], dir>>,
                       !.y = e.y + agent_speed * JUMP_VERTICAL_SPEED,
                       !.up = e.up + 1]
        ELSE IF dir = "down"
        THEN LET y1 == e.y - agent_speed * JUMP_VERTICAL_SPEED
             IN  [e EXCEPT !.x = x1,
                           !.jumping = <<IF y1 = floor_height THEN FALSE
                                         ELSE e.jumping[1], dir>>,
                           !.y = y1,
                           !.down = e.down + 1]
        ELSE [e EXCEPT !.x = x1]

\* mutant: the jump flag is not cleared when y comes back to the floor
_continue_jump_no_landing(e) ==
    LET x1 == Max(e.x + e.speed, 0)
        dir == IF e.y > floor_height + JUMP_HEIGHT THEN "down" ELSE e.jumping[2]
    IN  IF dir = "up"
        THEN [e EXCEPT !.x = x1,
                       !.jumping = <<e.jumping[1], dir>>,
                       !.y = e.y + agent_speed * JUMP_VERTICAL_SPEED,
                       !.up = e.up + 1]
        ELSE IF dir = "down"
        THEN [e EXCEPT !.x = x1,
                       !.jumping = <<e.jumping[1], dir>>,
                       !.y = e.y - agent_speed * JUMP_VERTICAL_SPEED,
                       !.down = e.down + 1]
        ELSE [e EXCEPT !.x = x1]

\* JumpTaskEnv._continue_jump: one tick of the jump
_continue_jump(e) ==
    LET x1 == Max(e.x + e.speed, 0)
        dir == IF e.y > floor_height + JUMP_HEIGHT THEN "down" ELSE e.jumping[2]
    IN  IF dir = "up"
        THEN [e EXCEPT !.x = x1,
                       !.jumping = <<e.jumping[1], dir>>,
                       !.y = e.y + agent_speed * JUMP_VERTICAL_SPEED,
                       !.up = e.up + 1]
        ELSE IF dir = "down"
        THEN LET y1 == e.y - agent_speed * JUMP_VERTICAL_SPEED
             IN  [e EXCEPT !.x = x1,
                           !.jumping = <<IF y1 = floor_height THEN FALSE
                                         ELSE e.jumping[1], dir>>,
                           !.y = y1,
                           !.down = e.down + 1]
        ELSE [e EXCEPT !.x = x1]

\* mutant: the jump action raises the flag and leaves the first tick to the
\* next step
Move_jump_deferred(e, action) ==
    IF e.jumping[1] THEN _continue_jump(e)
    ELSE IF action = 0
    THEN [e EXCEPT !.x = e.x + agent_speed,
                   !.speed = agent_speed * JUMP_HORIZONTAL_SPEED]
    ELSE IF action = 1
    THEN [e EXCEPT !.jumping = <<TRUE, "up">>, !.up = 0, !.down = 0]
    ELSE IF action = 2
    THEN IF e.x > 0
         THEN [e EXCEPT !.x = e.x - agent_speed,
                        !.speed = (0 - agent_speed) * JUMP_HORIZONTAL_SPEED]
         ELSE [e EXCEPT !.speed = 0]
    ELSE e

\* mutant: move right is carried out without looking at the jump flag
Move_right_first(e, action) ==
    IF action = 0
    THEN [e EXCEPT !.x = e.x + agent_speed,
                   !.speed = agent_speed * JUMP_HORIZONTAL_SPEED]
    ELSE IF e.jumping[1] THEN _continue_jump(e)
    ELSE IF action = 1
    THEN _continue_jump([e EXCEPT !.jumping = <<TRUE, "up">>,
                                  !.up = 0, !.down = 0])
    ELSE IF action = 2
    THEN IF e.x > 0
         THEN [e EXCEPT !.x = e.x - agent_speed,
                        !.speed = (0 - agent_speed) * JUMP_HORIZONTAL_SPEED]
         ELSE [e EXCEPT !.speed = 0]
    ELSE e

\* the branch of step() on the jump flag and the action (lines 309-322)
Move(e, action) ==
    IF e.jumping[1] THEN _continue_jump(e)
    ELSE IF action = 0
    THEN [e EXCEPT !.x = e.x + agent_speed,
                   !.speed = agent_speed * JUMP_HORIZONTAL_SPEED]
    ELSE IF action = 1
    THEN _continue_jump([e EXCEPT !.jumping = <<TRUE, "up">>,
                                  !.up = 0, !.down = 0])
    ELSE IF action = 2
    THEN IF e.x > 0
         THEN [e EXCEPT !.x = e.x - agent_speed,
                        !.speed = (0 - agent_speed) * JUMP_HORIZONTAL_SPEED]
         ELSE [e EXCEPT !.speed = 0]
    ELSE e

\* mutant: an if in place of the while, one more tick at most
FinishJumpLoop_once(st) ==
    IF st.self.jumping[1] /\ ~st.failure /\ ~st.success
    THEN _game_status(_continue_jump(st.self))
    ELSE st

\* the while loop of step() under finish_jump (lines 328-330); st is the
\* result of the last _game_status call
RECURSIVE FinishJumpLoop(_)
FinishJumpLoop(st) ==
    IF st.self.jumping[1] /\ ~st.failure /\ ~st.success
    THEN FinishJumpLoop(_game_status(_continue_jump(st.self)))
    ELSE st

\* mutant: the life penalty is added to the positional term
StepReward_additive(x0, x1, killed, exited) ==
    LET reward == (0 - x0) + x1
    IN  IF killed THEN reward + rewards_life
        ELSE IF exited THEN reward + rewards_exit
        ELSE reward

\* the reward of an accepted step (lines 300 and 332-336): x0 is agent_pos_x
\* when the call starts, x1 when it ends
StepReward(x0, x1, killed, exited) ==
    LET reward == (0 - x0) + x1
    IN  IF killed THEN rewards_life
        ELSE IF exited THEN reward + rewards_exit
        ELSE reward

\* JumpTaskEnv.step: the record of what the call returns and of the fields
\* it leaves behind
Base_step(action) ==
    IF step_id > max_number_of_steps
    THEN [outcome |-> get_state_outcome(floor_height), exhausted |-> TRUE,
          self |-> [Self EXCEPT !.done = TRUE], step_id |-> step_id,
          reward |-> 0, terminal |-> TRUE, info |-> {}, bonus |-> 0,
          exited |-> FALSE]
    ELSE IF action \notin legal_actions
    THEN [outcome |-> "ValueError", exhausted |-> FALSE,
          self |-> Self, step_id |-> step_id,
          reward |-> 0, terminal |-> FALSE, info |-> {}, bonus |-> 0,
          exited |-> FALSE]
    ELSE LET st0 == _game_status(Move(Self, action))
             st == IF finish_jump THEN FinishJumpLoop(st0) ELSE st0
             reward == StepReward(agent_pos_x, st.self.x, st.failure,
                                  st.success)
         IN  [outcome |-> get_state_outcome(floor_height), exhausted |-> FALSE,
              self |-> st.self, step_id |-> step_id + 1,
              reward |-> reward, terminal |-> st.self.done,
              info |-> {<<"collision", st.failure>>}, bonus |-> 0,
              exited |-> st.success]

\* JumpTaskEnvWithColors.step; bonus is the amount line 108 adds
Colors_step(action) ==
    LET r == Base_step(action)
    IN  IF r.outcome # "ok" THEN r
        ELSE IF r.self.y # floor_height THEN r
        ELSE IF ~(\E kv \in r.info : kv[1] = "collision")
        THEN [r EXCEPT !.outcome = "KeyError"]
        ELSE IF <<"collision", TRUE>> \in r.info
        THEN [r EXCEPT !.reward = r.reward + rewards_collision,
                       !.bonus = rewards_collision]
        ELSE r

step(action) ==
    IF variant = "colors" THEN Colors_step(action) ELSE Base_step(action)

----------------------------------------------------------------------------
(* Values recorded for a call *)

NoObs == <<>>

Returned(op, legal, r, obs) ==
    [op |-> op, outcome |-> r.outcome, legal |-> legal,
     exhausted |-> r.exhausted,
     obs |-> IF r.outcome = "ok" THEN obs ELSE NoObs,
     reward |-> IF r.outcome = "ok" THEN r.reward ELSE 0,
     terminal |-> IF r.outcome = "ok" THEN r.terminal ELSE FALSE,
     info |-> IF r.outcome = "ok" THEN r.info ELSE {},
     exited |-> IF r.outcome = "ok" THEN r.exited ELSE FALSE]

ResetReturned(op, outcome, obs) ==
    [op |-> op, outcome |-> outcome, legal |-> TRUE, exhausted |-> FALSE,
     obs |-> IF outcome = "ok" THEN obs ELSE NoObs,
     reward |-> 0, terminal |-> FALSE, info |-> {}, exited |-> FALSE]

\* the test rollout of test_colored_env: at most RolloutLength steps
RolloutLength == 50

\* History of the episode (ghost): terminal_seen, a step has returned
\* terminal=true; walk_only, every accepted action was move right; accepted,
\* the number of accepted steps; up/down, the ticks of the current jump;
\* overlapped, an accepted step has ended with the agent on an obstacle;
\* bonus, the number of steps that added a collision bonus; total, while
\* walk_only, the sum of the rewards of the first RolloutLength steps up to
\* the first terminal (0 once another action was accepted); jump_from, the
\* x at which the jump in progress started (-1 on the ground); over, while
\* not overlapped, the jump_from of the last jump that had the agent in the
\* air within the horizontal extent of the single obstacle (-1 if none)
FreshHist == [terminal_seen |-> FALSE, walk_only |-> TRUE, accepted |-> 0,
              up |-> 0, down |-> 0, overlapped |-> FALSE, bonus |-> 0,
              total |-> 0, jump_from |-> -1, over |-> -1]

\* the jump_from of the history after a step with result r
JumpFrom(r) ==
    IF r.step_id = step_id THEN hist.jump_from
    ELSE IF ~r.self.jumping[1] THEN -1
    ELSE IF ~jumping[1] THEN agent_pos_x
    ELSE hist.jump_from

\* the overlapped of the history after a step with result r
Overlapped(r) ==
    \/ hist.overlapped
    \/ /\ r.outcome = "ok" /\ ~r.exhausted
       /\ Base_game_status(r.self).failure

\* the over of the history after a step with result r
Over(r) ==
    IF Overlapped(r) THEN -1
    ELSE IF /\ JumpFrom(r) # -1
            /\ ~two_obstacles
            /\ r.self.x + agent_w > obstacle_position
            /\ obstacle_position + obstacle_w > r.self.x
    THEN JumpFrom(r)
    ELSE hist.over

----------------------------------------------------------------------------
(* Actions *)

\* env.step(action)
Step(action) ==
    \E r \in {step(action)} :
        /\ agent_pos_x' = r.self.x
        /\ agent_pos_y' = r.self.y
        /\ agent_current_speed' = r.self.speed
        /\ jumping' = r.self.jumping
        /\ done' = r.self.done
        /\ already_collided' = r.self.collided
        /\ step_id' = r.step_id
        /\ ret' = Returned("step", action \in legal_actions, r,
                           get_state(r.self.x, r.self.y, floor_height,
                                     two_obstacles, obstacle_position))
        /\ hist' = [terminal_seen |->
                        hist.terminal_seen \/ (r.outcome = "ok" /\ r.terminal),
                    walk_only |->
                        hist.walk_only /\ (r.step_id = step_id \/ action = 0),
                    accepted |-> hist.accepted +
                        (IF r.outcome = "ok" /\ ~r.exhausted THEN 1 ELSE 0),
                    up |-> r.self.up, down |-> r.self.down,
                    overlapped |-> Overlapped(r),
                    jump_from |-> JumpFrom(r),
                    over |-> Over(r),
                    bonus |-> hist.bonus + (IF r.bonus > 0 THEN 1 ELSE 0),
                    total |-> IF ~(hist.walk_only /\ (r.step_id = step_id \/ action = 0))
                              THEN 0
                              ELSE IF /\ r.outcome = "ok"
                                      /\ ~hist.terminal_seen
                                      /\ hist.accepted < RolloutLength
                              THEN hist.total + r.reward ELSE hist.total]
        /\ UNCHANGED <<config, floor_height, two_obstacles, obstacle_position>>

\* env._reset(p, f, two): the explicit reset
ResetTo(op, p, f, two) ==
    LET bad == ~two /\ (\/ p < LEFT \/ p >= RIGHT
                        \/ f < DOWN \/ f >= UP)
        np == IF two \/ bad THEN obstacle_position ELSE p
    IN  /\ agent_pos_x' = agent_init_pos
        /\ agent_pos_y' = f
        /\ agent_current_speed' = agent_speed * JUMP_HORIZONTAL_SPEED
        /\ jumping' = <<FALSE, "None">>
        /\ step_id' = 0
        /\ done' = FALSE
        /\ floor_height' = f
        /\ two_obstacles' = two
        /\ obstacle_position' = np
        /\ already_collided' = FALSE
        /\ ret' = ResetReturned(op, IF bad THEN "ValueError"
                                    ELSE get_state_outcome(f),
                                get_state(agent_init_pos, f, f, two, np))
        /\ hist' = FreshHist
        /\ UNCHANGED config

_reset(p, f, two) == ResetTo("_reset", p, f, two)

\* env.reset(): one of the six random positions
reset ==
    \E p \in ALLOWED_OBSTACLE_X, f \in ALLOWED_OBSTACLE_Y :
        ResetTo("reset", p, f, FALSE)

\* env.close()
close ==
    /\ done' = TRUE
    /\ ret' = ResetReturned("close", "ok", NoObs)
    /\ UNCHANGED <<config, agent_pos_x, agent_pos_y, agent_current_speed,
                   jumping, step_id, floor_height, two_obstacles,
                   obstacle_position, already_collided, hist>>

----------------------------------------------------------------------------
(* Specifications *)

Variants == {<<"base", "GREEN">>, <<"coordinates", "GREEN">>,
             <<"colors", "GREEN">>, <<"colors", "RED">>}

\* the state after the constructor: __init__ ends with self.reset()
Constructed(vs, lefts, finishes, maxes, twos) ==
    /\ \E v \in vs : variant = v[1] /\ obstacle_color = v[2]
    /\ with_left_action \in lefts
    /\ finish_jump \in finishes
    /\ max_number_of_steps \in maxes
    /\ ctor_two_obstacles \in twos
    /\ agent_pos_x = agent_init_pos
    /\ floor_height \in ALLOWED_OBSTACLE_Y
    /\ agent_pos_y = floor_height
    /\ agent_current_speed = agent_speed * JUMP_HORIZONTAL_SPEED
    /\ jumping = <<FALSE, "None">>
    /\ step_id = 0
    /\ done = FALSE
    /\ two_obstacles = FALSE
    /\ obstacle_position \in ALLOWED_OBSTACLE_X
    /\ already_collided = FALSE
    /\ ret = ResetReturned("init", "ok",
                           get_state(agent_pos_x, agent_pos_y, floor_height,
                                     two_obstacles, obstacle_position))
    /\ hist = FreshHist

StepAny == \E a \in Actions : Step(a)
StepLegal == \E a \in legal_actions : Step(a)
ResetExplicit == \E a \in ExplicitArgs : _reset(a[1], a[2], a[3])

Next == StepAny \/ reset \/ ResetExplicit \/ close

\* every class and every flag, short episodes
Init == Constructed(Variants, BOOLEAN, BOOLEAN, {ShortEpisode}, {FALSE})
Spec == Init /\ [][Next]_vars

\* the base engine, one tick per step, no left action, episodes long enough
\* to cross the screen
InitLong == Constructed({<<"base", "GREEN">>}, {FALSE}, {FALSE}, {LongEpisode}, {FALSE})
SpecLong == InitLong /\ [][Next]_vars

\* the coloured class with a green and with a red obstacle, one tick per
\* step, no left action, episodes long enough to cross the screen
InitColors == Constructed({<<"colors", "GREEN">>, <<"colors", "RED">>},
                          {FALSE}, {FALSE}, {LongEpisode}, {FALSE})
SpecColors == InitColors /\ [][Next]_vars

\* the coordinates class, likewise
InitCoordinates == Constructed({<<"coordinates", "GREEN">>},
                               {FALSE}, {FALSE}, {LongEpisode}, {FALSE})
SpecCoordinates == InitCoordinates /\ [][Next]_vars

\* the base engine constructed with two_obstacles=True, short episodes
InitTwo == Constructed({<<"base", "GREEN">>}, {FALSE}, {FALSE},
                       {ShortEpisode}, {TRUE})
SpecTwo == InitTwo /\ [][Next]_vars

\* the base engine with episodes a little longer than one jump, driven by a
\* training loop: reset() between episodes, and a caller that goes on calling
\* step with legal actions
InitLive == Constructed({<<"base", "GREEN">>}, {FALSE}, {FALSE},
                        {JumpEpisode}, {FALSE})
NextLive == StepAny \/ reset
SpecLive == InitLive /\ [][NextLive]_vars /\ WF_vars(StepLegal)

----------------------------------------------------------------------------
\* a jump is in progress / the agent stands on the floor
Airborne == jumping[1]
Grounded == ~jumping[1]

\* the last call was a step that returned (observation, reward, terminal, info)
StepReturned == ret.op = "step" /\ ret.outcome = "ok"
\* the info map of the last call says collision
InfoCollision == <<"collision", TRUE>> \in ret.info

----------------------------------------------------------------------------
(* Claims *)

\* C1 (as stated): once a step call of the episode has returned
\* terminal=true, every later step call with a legal action leaves the agent
\* position (x, y) unchanged until the next reset.
C1_Orig ==
    [][(hist.terminal_seen /\ ret'.op = "step" /\ ret'.legal)
         => (agent_pos_x' = agent_pos_x /\ agent_pos_y' = agent_pos_y)]_vars

\* C2 (as stated): in every variant a step call made when step_count exceeds
\* max_number_of_steps returns normally with reward 0 and terminal=true and
\* leaves agent position, jump phase and step_count unchanged.
C2_Orig ==
    [][(step_id > max_number_of_steps /\ ret'.op = "step")
         => (/\ ret'.outcome = "ok"
             /\ ret'.reward = 0
             /\ ret'.terminal
             /\ UNCHANGED <<agent_pos_x, agent_pos_y, jumping, step_id>>)]_vars

\* C3 (as stated): in every reachable state a step call whose action is
\* outside the legal set fails with IllegalAction (ValueError) and leaves the
\* whole episode state unchanged.
C3_Orig ==
    [][(ret'.op = "step" /\ ~ret'.legal)
         => (ret'.outcome = "ValueError" /\ UNCHANGED fields)]_vars

\* C4 (as stated): an explicit reset that fails with
\* OutOfRangeConfiguration (ValueError) leaves agent position, jump phase,
\* horizontal velocity, step_count, terminal flag, floor_height, layout and
\* obstacle position unchanged.
C4_Orig ==
    [][(ret'.op = "_reset" /\ ret'.outcome = "ValueError")
         => UNCHANGED episode]_vars

\* C5 (as stated): a successful explicit reset puts the agent at
\* (agent_init_pos, floor_height), GROUNDED, with step_count 0 and terminal
\* false, and the observation it returns depends only on the reset arguments
\* and the configuration: it is the observation the same call returns on a
\* freshly constructed instance, whichever obstacle position the constructor
\* drew.
C5_Orig ==
    [][\A a \in ExplicitArgs :
         (_reset(a[1], a[2], a[3]) /\ ret'.outcome = "ok")
           => (/\ agent_pos_x' = agent_init_pos
               /\ agent_pos_y' = a[2]
               /\ ~jumping'[1]
               /\ step_id' = 0
               /\ ~done'
               /\ \A p0 \in ALLOWED_OBSTACLE_X :
                     ret'.obs = get_state(agent_init_pos, a[2], a[2], a[3],
                                          IF a[3] THEN p0 ELSE a[1]))]_vars

\* C6 (as stated): the agent's y never exceeds floor_height + JUMP_HEIGHT
\* (25 for floor_height 10), for floor heights in {10, 20}.
C6_Orig ==
    floor_height \in ALLOWED_OBSTACLE_Y
        => agent_pos_y <= floor_height + JUMP_HEIGHT

\* C6 (amended): the test that turns the jump is y > floor_height +
\* JUMP_HEIGHT, so y rises to floor_height + JUMP_HEIGHT + 1 (26 for
\* floor_height 10) and never exceeds it, for floor heights in {10, 20}.
C6_Thm ==
    floor_height \in ALLOWED_OBSTACLE_Y
        => agent_pos_y <= floor_height + JUMP_HEIGHT + 1

\* the top of a jump that started at x = 0 on floor 10: 16 ticks up, y = 26
C6_Wit ==
    /\ floor_height = 10
    /\ Airborne
    /\ hist.up = JUMP_HEIGHT + 1
    /\ hist.down = 0
    /\ agent_pos_x = JUMP_HEIGHT + 1
    /\ agent_pos_y = 26

\* the agent stands on the floor after a jump that has landed
Landed == Grounded /\ jumping[2] = "down"

\* C7 (as stated): every jump completes when step calls continue: after
\* finitely many ticks y is floor_height and the phase is GROUNDED again.
C7_Orig == Airborne ~> (Grounded /\ agent_pos_y = floor_height)

\* the ticks a whole jump makes, up and down
JumpTicks == 2 * (JUMP_HEIGHT + 1)

\* the steps the step limit still accepts (those at step_id 0 ..
\* max_number_of_steps) are at least the ticks the jump in progress still
\* needs
EnoughSteps ==
    (max_number_of_steps + 1) - step_id >= JumpTicks - (hist.up + hist.down)

\* C7 (amended): when legal step calls continue, every jump in progress that
\* the step limit leaves enough accepted steps for (one per tick still to
\* make, of 32 in all) completes: y is exactly floor_height and the phase is
\* GROUNDED again; a jump that has landed has y = floor_height and as many
\* descending as ascending ticks.  A jump with fewer steps left is frozen
\* in the air by the step limit (C7_Frozen).
C7_Thm ==
    /\ (Airborne /\ EnoughSteps) ~> (Grounded /\ agent_pos_y = floor_height)
    /\ [](Landed => (/\ agent_pos_y = floor_height
                     /\ hist.up = hist.down
                     /\ hist.up = JUMP_HEIGHT + 1))

\* a jump started with exactly 32 accepted steps left has landed on floor 20
\* with the last step the limit accepts, after 16 ticks up and 16 ticks down
C7_Wit ==
    /\ Landed
    /\ ret.op = "step"
    /\ step_id = max_number_of_steps + 1
    /\ floor_height = 20
    /\ agent_pos_y = 20
    /\ hist.up = 16
    /\ hist.down = 16

\* a jump started one step later is in the air, one tick short, when the
\* step limit turns step into a no-op
C7_Frozen ==
    /\ Airborne
    /\ ret.op = "step"
    /\ ret.exhausted
    /\ step_id = max_number_of_steps + 1
    /\ hist.up + hist.down = JumpTicks - 1
    /\ agent_pos_y = floor_height + 1

\* C8: in the single-obstacle layout, an agent that has only moved right
\* since the reset gets reward +1 and terminal=false on every step that ends
\* left of obstacle_position - agent_w + 1, and the step that ends at
\* obstacle_position - agent_w + 1 registers the collision and returns the
\* life penalty and terminal=true.
C8_Thm ==
    [][(/\ ~two_obstacles
        /\ ret'.op = "step"
        /\ hist'.walk_only
        /\ hist'.accepted = hist.accepted + 1
        /\ agent_pos_x' <= obstacle_position - agent_w + 1)
         => IF agent_pos_x' < obstacle_position - agent_w + 1
            THEN /\ ret'.reward = 1
                 /\ ~ret'.terminal
                 /\ ret'.info = {<<"collision", FALSE>>}
            ELSE /\ ret'.reward = rewards_life
                 /\ ret'.terminal
                 /\ ret'.info = {<<"collision", TRUE>>}]_vars

\* the walk from reset(30, 10) has hit the obstacle at x = 26
C8_Wit ==
    /\ ~two_obstacles
    /\ obstacle_position = 30
    /\ floor_height = 10
    /\ hist.walk_only
    /\ hist.accepted = 26
    /\ agent_pos_x = 26
    /\ StepReturned
    /\ ret.reward = -1
    /\ ret.terminal
    /\ InfoCollision

\* success as _game_status computes it, at the position the call ends at
Exited == scr_w < agent_pos_x + agent_w

\* C9: for every accepted step of the base engine the reward is the life
\* penalty if a collision is detected, otherwise the displacement of x over
\* the whole call plus 100 if the right edge is reached, otherwise the
\* displacement of x over the whole call.
C9_Thm ==
    [][(/\ variant # "colors"
        /\ ret'.op = "step"
        /\ hist'.accepted = hist.accepted + 1)
         => ret'.reward =
              IF <<"collision", TRUE>> \in ret'.info THEN -1
              ELSE IF Exited' THEN (agent_pos_x' - agent_pos_x) + 100
              ELSE agent_pos_x' - agent_pos_x]_vars

\* a finish_jump step has carried the agent several pixels into an obstacle
C9_Wit ==
    /\ variant = "base"
    /\ finish_jump
    /\ StepReturned
    /\ InfoCollision
    /\ ret.reward = -1
    /\ hist.accepted = 1
    /\ agent_pos_x > 1

\* C10 (as stated): step_count increases by exactly one on every accepted
\* step call, and the number of accepted step calls of one episode never
\* exceeds max_number_of_steps.
C10_Orig ==
    /\ [][(ret'.op = "step" /\ hist'.accepted = hist.accepted + 1)
            => step_id' = step_id + 1]_vars
    /\ [](hist.accepted <= max_number_of_steps)

\* C11 (as stated): in the coloured class with a green obstacle, once the
\* agent has overlapped the obstacle in the episode, walking or jumping, the
\* collision bonus has been added to a step reward exactly once: never zero
\* times, never more than once.
C11_Orig ==
    [](/\ variant = "colors"
       /\ obstacle_color = "GREEN"
       /\ hist.overlapped
       => hist.bonus = 1)

\* the layout is one reset() can draw
RandomLayout ==
    /\ ~two_obstacles
    /\ obstacle_position \in ALLOWED_OBSTACLE_X
    /\ floor_height \in ALLOWED_OBSTACLE_Y

\* the rollout of move-right steps is over: RolloutLength steps were made or
\* a step returned terminal=true
RolloutOver ==
    /\ hist.walk_only
    /\ hist.accepted >= RolloutLength \/ hist.terminal_seen

\* C12: in the coloured class with a green obstacle and the default
\* configuration, from any layout reset() can draw, the rewards of a rollout
\* of move-right steps, RolloutLength long or stopped at the first terminal
\* step, sum to at least the collision bonus.
C12_Thm ==
    (/\ variant = "colors"
     /\ obstacle_color = "GREEN"
     /\ RandomLayout
     /\ RolloutOver)
      => hist.total >= 100

\* the rollout towards the farthest obstacle has collected the bonus, the
\* life penalty of the collision step and one point for every other step
C12_Wit ==
    /\ variant = "colors"
    /\ obstacle_color = "GREEN"
    /\ RandomLayout
    /\ obstacle_position = 40
    /\ RolloutOver
    /\ StepReturned
    /\ hist.accepted = RolloutLength
    /\ hist.bonus = 1
    /\ hist.total = (RolloutLength - 1) + (100 - 1)

\* the half-open intervals [a, a + la) and [b, b + lb) share a pixel
Intersects(a, la, b, lb) == (a .. a + la - 1) \cap (b .. b + lb - 1) # {}

\* the agent's rectangle shares a pixel with the obstacle whose left edge is sx
OnObstacle(sx) ==
    /\ Intersects(agent_pos_x, agent_w, sx, obstacle_w)
    /\ Intersects(agent_pos_y, agent_h, floor_height, obstacle_h)

\* ... with an obstacle of the active layout
OnAnyObstacle ==
    IF two_obstacles THEN OnObstacle(OBSTACLE_1) \/ OnObstacle(OBSTACLE_2)
    ELSE OnObstacle(obstacle_position)

\* the last call was a step accepted within the step limit
StepAccepted == StepReturned /\ ~ret.exhausted

\* C13: in the coloured class, for every accepted step within the step
\* limit: with a green obstacle the step is terminal exactly when the right
\* edge is reached (a collision never ends the episode); with a red obstacle
\* it is terminal exactly when the agent is on the obstacle or the right edge
\* is reached, and a collision step returns the life penalty with no bonus.
C13_Thm ==
    (variant = "colors" /\ StepAccepted)
      => /\ obstacle_color = "GREEN" => (ret.terminal <=> Exited)
         /\ obstacle_color = "RED"
              => /\ ret.terminal <=> (OnAnyObstacle \/ Exited)
                 /\ InfoCollision <=> OnAnyObstacle
                 /\ InfoCollision => ret.reward = -1

\* a step onto the green obstacle on the ground paid the bonus and did not
\* end the episode
C13_Wit ==
    /\ variant = "colors"
    /\ obstacle_color = "GREEN"
    /\ StepAccepted
    /\ OnAnyObstacle
    /\ InfoCollision
    /\ ret.reward = 99
    /\ ~ret.terminal
    /\ ~done

\* C14 (as stated): an environment constructed with two_obstacles=True uses
\* the two-obstacle layout in the episode started by the constructor and in
\* every episode started by reset().
C14_Orig ==
    [](/\ ctor_two_obstacles
       /\ ret.op \in {"init", "reset"}
       => two_obstacles)

\* the observation lies in the declared box
InObservationSpace(obs) ==
    /\ Len(obs) = 2
    /\ \A i \in 1 .. 2 : /\ observation_space_low[i] <= obs[i]
                          /\ obs[i] <= observation_space_high[i]

\* one obstacle, at a position and on a floor that _reset accepts
AcceptedLayout ==
    /\ ~two_obstacles
    /\ obstacle_position \in LEFT .. RIGHT - 1
    /\ floor_height \in DOWN .. UP - 1

\* C15: in the coordinates class with the default configuration, for every
\* accepted obstacle position and every sequence of legal actions, the
\* observation returned by the constructor's reset, by a reset and by every
\* step up to and including the first terminal step lies in the declared
\* observation space [1 - RIGHT, 56 - LEFT] x [0, 16].
C15_Thm ==
    /\ [](/\ variant = "coordinates"
           /\ AcceptedLayout
           /\ ret.op \in {"init", "reset", "_reset"}
           /\ ret.outcome = "ok"
           => InObservationSpace(ret.obs))
    /\ [][(/\ variant = "coordinates"
            /\ AcceptedLayout
            /\ ~hist.terminal_seen
            /\ ret'.op = "step"
            /\ ret'.outcome = "ok")
             => InObservationSpace(ret'.obs)]_vars

\* the agent has jumped the leftmost obstacle and left the screen: the
\* first terminal step returns the upper bound of the horizontal distance
C15_Wit ==
    /\ variant = "coordinates"
    /\ AcceptedLayout
    /\ obstacle_position = LEFT
    /\ StepAccepted
    /\ ret.terminal
    /\ hist.accepted = scr_w - agent_w + 1
    /\ ret.obs = <<56 - LEFT, 0>>

\* the range test the claim gives for _reset(p, f, two)
OutOfRange(p, f, two) ==
    ~two /\ (p < LEFT \/ p >= RIGHT \/ f < DOWN \/ f >= UP)

\* C16 (as stated): _reset(p, f, two) fails with the out-of-range
\* configuration error exactly when two is false and p < 14 or p >= 48 or
\* f < 0 or f >= 41; with two true it always succeeds, whatever p and f.
C16_Orig ==
    [][\A a \in ExplicitArgs :
         _reset(a[1], a[2], a[3])
           => /\ ret'.outcome = "ValueError" <=> OutOfRange(a[1], a[2], a[3])
              /\ a[3] => ret'.outcome = "ok"]_vars

\* C17 (as stated): every step call that returns, in every reachable state,
\* step-limit exhaustion included, returns an info map that has the key
\* collision with a boolean value.
C17_Orig ==
    [](StepReturned
         => \E b \in BOOLEAN : <<"collision", b>> \in ret.info)

\* C18: in the base engine the collision flag of an accepted step is the
\* overlap of the half-open rectangles of the agent and of an obstacle of
\* the active layout, so rectangles that only touch do not collide; in the
\* two-obstacle layout an agent on the floor collides exactly for x in
\* [16, 28] or [51, 63], never in the gap [29, 50].
C18_Thm ==
    (variant = "base" /\ StepAccepted)
      => /\ InfoCollision <=> OnAnyObstacle
         /\ (two_obstacles /\ agent_pos_y = floor_height)
              => (InfoCollision <=> agent_pos_x \in (16 .. 28) \cup (51 .. 63))

\* in the two-obstacle layout the agent stands on the floor with its left
\* edge on the last pixel of the second obstacle (x = 63): a collision
C18_Wit ==
    /\ variant = "base"
    /\ StepAccepted
    /\ two_obstacles
    /\ agent_pos_y = floor_height
    /\ agent_pos_x = OBSTACLE_2 + obstacle_w - 1
    /\ InfoCollision

\* ... one pixel further (x = 64), clear of the second obstacle: no collision
C18_WitClear ==
    /\ variant = "base"
    /\ StepAccepted
    /\ two_obstacles
    /\ agent_pos_y = floor_height
    /\ agent_pos_x = OBSTACLE_2 + obstacle_w
    /\ ~InfoCollision

\* ... with its right edge one pixel into the second obstacle (x = 51), and
\* one pixel before (x = 50, the end of the gap)
C18_WitEnter ==
    /\ variant = "base"
    /\ StepAccepted
    /\ two_obstacles
    /\ agent_pos_y = floor_height
    /\ agent_pos_x = OBSTACLE_2 - agent_w + 1
    /\ InfoCollision
C18_WitGap ==
    /\ variant = "base"
    /\ StepAccepted
    /\ two_obstacles
    /\ agent_pos_y = floor_height
    /\ agent_pos_x = OBSTACLE_2 - agent_w
    /\ ~InfoCollision

\* the agent stands with its right edge on the left edge of the obstacle
\* (agent.x + agent_w = obstacle.x): no collision
C18_WitTouching ==
    /\ variant = "base"
    /\ StepAccepted
    /\ ~two_obstacles
    /\ agent_pos_y = floor_height
    /\ agent_pos_x + agent_w = obstacle_position
    /\ ~InfoCollision

\* this transition is an accepted step that began with the agent in the air
AirborneStep ==
    /\ Airborne
    /\ ret'.op = "step"
    /\ hist'.accepted = hist.accepted + 1

\* the number of ticks the current jump has made
Ticks == hist.up + hist.down

\* C19 (as stated): when the agent is in the air at the start of an accepted
\* step, the resulting state, reward and terminal flag are the same for
\* every legal action: the action is not consumed and the jump advances one
\* tick.
C19_Orig ==
    [][AirborneStep
         => /\ \A a \in legal_actions : Step(a)
            /\ Ticks' = Ticks + 1]_vars

\* C19 (amended): when the agent is in the air at the start of an accepted
\* step, the resulting state, reward and terminal flag are the same for
\* every legal action: the action is not consumed and the jump advances one
\* tick, and with finish_jump enabled further ticks until it lands or a
\* collision or the exit is detected.
C19_Thm ==
    [][AirborneStep
         => /\ \A a \in legal_actions : Step(a)
            /\ Ticks' >= Ticks + 1
            /\ ~finish_jump => Ticks' = Ticks + 1
            /\ (finish_jump /\ Airborne')
                 => (<<"collision", TRUE>> \in ret'.info \/ Exited')]_vars

\* one tick per step: the agent is still in the air after a step that began
\* in the air, where the left action was legal too
C19_Wit ==
    /\ ~finish_jump
    /\ with_left_action
    /\ StepAccepted
    /\ Airborne
    /\ Ticks = 3

\* finish_jump: a step that began in the air after a collision on the way up
\* has carried the jump to the ground
C19_WitFinish ==
    /\ finish_jump
    /\ variant = "base"
    /\ StepAccepted
    /\ hist.overlapped
    /\ Landed
    /\ ~InfoCollision
    /\ hist.accepted = 3

\* C20 (as stated): with finish_jump every step call terminates, and when it
\* returns the agent is on the ground (y = floor_height) or a collision or
\* the right-edge exit was detected in that call; a jump that meets neither
\* is completed within the call that started it.
C20_Orig ==
    []((finish_jump /\ StepReturned)
         => \/ Grounded /\ agent_pos_y = floor_height
            \/ InfoCollision
            \/ Exited)

\* C20 (amended): with finish_jump every step call terminates, the jump
\* making at most 2 * (JUMP_HEIGHT + 1) ticks, and when a step accepted
\* within the step limit returns, the agent is on the ground
\* (y = floor_height) or a collision or the right-edge exit was detected in
\* that call; a jump that meets neither is completed within the call that
\* started it.  A call past the step limit returns at once and leaves an
\* agent that is in the air where it is.
C20_Thm ==
    finish_jump
      => /\ Ticks <= 2 * (JUMP_HEIGHT + 1)
         /\ StepAccepted
              => \/ Grounded /\ agent_pos_y = floor_height
                 \/ InfoCollision
                 \/ Exited

\* a whole jump, 16 ticks up and 16 down, was made by the call that started
\* it
C20_Wit ==
    /\ finish_jump
    /\ StepAccepted
    /\ hist.accepted = 1
    /\ Landed
    /\ agent_pos_y = floor_height
    /\ Ticks = 2 * (JUMP_HEIGHT + 1)
    /\ agent_pos_x = 2 * (JUMP_HEIGHT + 1)
    /\ ~InfoCollision
    /\ ~Exited

\* C21: in every state between calls, after the constructor, after a reset
\* and after each step, the jump phase is GROUNDED exactly when the agent's
\* y is floor_height, and the agent's y is never below floor_height.
C21_Thm ==
    /\ Grounded <=> agent_pos_y = floor_height
    /\ agent_pos_y >= floor_height

\* the last tick before the landing: in the air, one pixel above the floor
C21_Wit ==
    /\ StepAccepted
    /\ Airborne
    /\ jumping[2] = "down"
    /\ agent_pos_y = floor_height + 1
    /\ hist.down = JUMP_HEIGHT

\* C22: in the single-obstacle layout with an obstacle position _reset
\* accepts (LEFT <= p < RIGHT) and the default dimensions, no accepted step
\* observes the collision and the right-edge success together.
C22_Thm ==
    (/\ ~two_obstacles
     /\ obstacle_position \in LEFT .. RIGHT - 1
     /\ StepAccepted)
      => /\ ~(InfoCollision /\ ret.exited)
         /\ ~(OnAnyObstacle /\ ret.exited)
         /\ ret.exited <=> Exited

\* with the obstacle at the last accepted position the agent has walked
\* through it and passed the right edge one step after leaving it
C22_Wit ==
    /\ ~two_obstacles
    /\ obstacle_position = RIGHT - 1
    /\ StepAccepted
    /\ hist.walk_only
    /\ hist.overlapped
    /\ ret.exited
    /\ ~InfoCollision
    /\ agent_pos_x = RIGHT - 1 + obstacle_w

\* C23 (as stated): the terminal flag is absorbing within an episode: once a
\* step call has returned terminal=true, every later step call returns
\* terminal=true too, until a reset (base engine and coloured class, legal
\* actions).
C23_Orig ==
    [][(/\ variant \in {"base", "colors"}
        /\ hist.terminal_seen
        /\ ret'.op = "step"
        /\ ret'.outcome = "ok")
         => ret'.terminal]_vars

\* this transition is an accepted step with action a taken on the ground
GroundedStep(a) ==
    /\ Grounded
    /\ Step(a)
    /\ hist'.accepted = hist.accepted + 1

\* C24: with the left action enabled and the default agent_speed and
\* agent_init_pos, the agent's x is never negative: move left at x > 0
\* takes agent_speed from x and sets the horizontal velocity to -agent_speed;
\* move left at x = 0 leaves x and sets the velocity to 0, so that the next
\* jump is vertical; a tick of a leftward jump stops at x = 0.
C24_Thm ==
    /\ [](with_left_action => agent_pos_x >= 0)
    /\ [][(with_left_action /\ GroundedStep(2))
            => IF agent_pos_x > 0
               THEN /\ agent_pos_x' = agent_pos_x - 1
                    /\ agent_current_speed' = -1
               ELSE /\ agent_pos_x' = agent_pos_x
                    /\ agent_current_speed' = 0]_vars
    /\ [][(with_left_action /\ ~finish_jump /\ AirborneStep)
            => /\ agent_current_speed' = agent_current_speed
               /\ agent_current_speed = 0 => agent_pos_x' = agent_pos_x
               /\ agent_current_speed = -1
                    => agent_pos_x' = IF agent_pos_x = 0 THEN 0
                                      ELSE agent_pos_x - 1]_vars

\* a leftward jump started one pixel from the left edge is held at x = 0
C24_Wit ==
    /\ with_left_action
    /\ ~finish_jump
    /\ StepAccepted
    /\ Airborne
    /\ agent_current_speed = -1
    /\ agent_pos_x = 0
    /\ Ticks = 2

\* a jump after move left at the left edge goes straight up
C24_WitVertical ==
    /\ with_left_action
    /\ ~finish_jump
    /\ StepAccepted
    /\ Airborne
    /\ agent_current_speed = 0
    /\ agent_pos_x = 0
    /\ Ticks = 2

\* a step of the base engine in its default configuration has passed the
\* right edge, and no accepted step of the episode ended on the obstacle
CleanExit ==
    /\ variant = "base"
    /\ ~with_left_action
    /\ ~finish_jump
    /\ RandomLayout
    /\ StepAccepted
    /\ ret.exited
    /\ ~hist.overlapped

\* C25: in the single-obstacle layout with the default parameters and no
\* left action, for every obstacle position in {20, 30, 40} and floor
\* height in {10, 20} a clean exit (right-edge success with no collision at
\* any earlier step) is reachable, and in every run that ends in one the
\* jump that carried the agent over the obstacle started at exactly
\* x = obstacle_position - 14.  The reachability is shown by C25_Wit and
\* C25_Wit_20_20 .. C25_Wit_40_20, one state for each layout.
C25_Thm == CleanExit => hist.over = obstacle_position - 14

C25_Wit ==
    CleanExit /\ obstacle_position = 20 /\ floor_height = 10 /\ hist.over = 6
C25_Wit_20_20 ==
    CleanExit /\ obstacle_position = 20 /\ floor_height = 20 /\ hist.over = 6
C25_Wit_30_10 ==
    CleanExit /\ obstacle_position = 30 /\ floor_height = 10 /\ hist.over = 16
C25_Wit_30_20 ==
    CleanExit /\ obstacle_position = 30 /\ floor_height = 20 /\ hist.over = 16
C25_Wit_40_10 ==
    CleanExit /\ obstacle_position = 40 /\ floor_height = 10 /\ hist.over = 26
C25_Wit_40_20 ==
    CleanExit /\ obstacle_position = 40 /\ floor_height = 20 /\ hist.over = 26

====
